---- MODULE Spec2Model ----
(***************************************************************************)
(* A model of the FastAPI proxy gateway of src/main.py: the four bearer-   *)
(* protected handlers (get_api_usage, get_service_log, get_models, proxy), *)
(* the two audit-log writers behind log_lock, and the outbound forward     *)
(* calls.  Strings the code slices or filters (the Authorization header,   *)
(* the API key) are sequences of one-character strings, so that            *)
(* startswith, [7:] and replace('"', '') are computed as the code computes *)
(* them.                                                                   *)
(***************************************************************************)
EXTENDS Naturals, Sequences, FiniteSets

\* ------------------------------------------------------------------ bounds

\* Number of requests in flight in the concurrent specification.
NumReqs == 2

Reqs == 1 .. NumReqs

\* ----------------------------------------------------------- configuration

Quote == "\""

\* The prefix tested by authorization.startswith("Bearer ").
Bearer == <<"B", "e", "a", "r", "e", "r", " ">>

\* Another seven characters in front of a token: a header of another scheme.
Basic == <<"B", "a", "s", "i", "c", ":", " ">>

\* The api_key logged when no usable header was sent.
no_api_key == <<"n", "o", "_", "a", "p", "i", "_", "k", "e", "y">>

\* The key/username registry read from .env by load_config.
VALID_API_KEYS == [alice |-> <<"k", "1">>]

\* The upstream credential of the OpenAI backend.
OPENAI_API_KEY == <<"s", "k">>

\* Python's None, as written by the csv writer for an unknown user.
None == "None"

\* The default "none" of the request_body parameter of the log functions.
none == [repr |-> "str", val |-> "none"]

\* The same default of the request_headers parameter.
none_headers == [repr |-> "str", val |-> <<"n", "o", "n", "e">>]

ModelNames == {"m1", "m2"}

\* ------------------------------------------------------------------ inputs

Methods == {"GET", "POST"}

Paths == {"/api_usage", "/service_log", "/models", "/validate"}

Authorizations ==
    { <<>>,
      Bearer \o <<"k", "1">>,
      Bearer \o <<Quote, "k", "1", Quote>>,
      Bearer \o <<"x">>,
      Basic \o <<"k", "1">> }

\* Request bodies: none, not JSON, and JSON objects with or without "model".
Bodies == {"", "not json", "{}", "{\"model\": \"m1\"}", "{\"model\": \"m2\"}"}

Inputs == [method : Methods, path : Paths, authorization : Authorizations,
           body : Bodies]

\* The requests of the concurrent specification: readers of the usage log,
\* writers of both logs, and a proxied call.
ConcurrentInputs ==
    { [method |-> "GET", path |-> "/api_usage", authorization |-> Bearer \o <<"k", "1">>,
       body |-> ""],
      [method |-> "GET", path |-> "/service_log", authorization |-> Bearer \o <<"k", "1">>,
       body |-> ""],
      [method |-> "GET", path |-> "/models",
       authorization |-> Bearer \o <<Quote, "k", "1", Quote>>, body |-> ""],
      [method |-> "POST", path |-> "/validate", authorization |-> Bearer \o <<"k", "1">>,
       body |-> "{\"model\": \"m1\"}"] }

\* The requests of the fair specification: one for each way a handler uses
\* log_lock (read then append, append then go on, append then await).
FairInputs == {req \in ConcurrentInputs : req.path # "/models"}

\* What an upstream server can answer to a forwarded request.
UpstreamStatuses == {200, 201, 500}

Outcomes ==
    [kind : {"response"}, status_code : UpstreamStatuses, content : {"upstream"}]
        \cup {[kind |-> "error", status_code |-> 0, content |-> ""]}

\* What a backend can answer to the model-list fetch made at start: a list of
\* models, a JSON body without the list (an error object), a body that is not
\* JSON, or no answer at all (a network error).
FetchAnswers ==
    [kind : {"models"}, models : SUBSET ModelNames]
        \cup [kind : {"no_list", "not_json", "error"}, models : {{}}]

VARIABLES
    boot,                   \* the start-up step the process is at
    OPENAI_MODELS,          \* ids served by the OpenAI backend
    OLLAMA_MODELS,          \* names served by the local server
    log_lock,               \* 0, or the request holding the lock
    api_usage_csv,          \* rows of ./api_usage.csv
    invalid_api_usage_csv,  \* rows of ./invalid_api_usage.csv
    now,                    \* datetime.now(), as a counter
    pc,                     \* each request's position
    request,                \* each request's method, path, header and body
    todo,                   \* the steps each handler still has to run
    entries,                \* the rows a /api_usage request has read
    attempts,               \* the outbound requests made for each request
    upstream,               \* the answer to the last outbound request
    response,               \* the response sent to the caller
    calls,                  \* the log functions each request has returned from
    audit                   \* the reads and appends done under log_lock, in order

vars == <<boot, OPENAI_MODELS, OLLAMA_MODELS, log_lock, api_usage_csv,
          invalid_api_usage_csv, now, pc, request, todo, entries, attempts,
          upstream, response, calls, audit>>

\* ---------------------------------------------------------- pure functions

\* s.startswith(p)
StartsWith(s, p) == Len(s) >= Len(p) /\ SubSeq(s, 1, Len(p)) = p

\* authorization[7:]: remove the 'Bearer ' prefix
Slice7(s) == SubSeq(s, 8, Len(s))

\* api_key.replace('"', '')
RemoveQuotes(s) == SelectSeq(s, LAMBDA c : c # Quote)

\* VALID_API_KEYS.values()
KeyValues == {VALID_API_KEYS[u] : u \in DOMAIN VALID_API_KEYS}

\* next((user for user, key in VALID_API_KEYS.items() if key == api_key), None)
UsernameOf(api_key) ==
    IF \E u \in DOMAIN VALID_API_KEYS : VALID_API_KEYS[u] = api_key
    THEN CHOOSE u \in DOMAIN VALID_API_KEYS : VALID_API_KEYS[u] = api_key
    ELSE None

\* json.loads(request_body).get("model", ""): ok is FALSE when loads raises.
JsonModel(body) ==
    CASE body = "{\"model\": \"m1\"}" -> [ok |-> TRUE, model |-> "m1"]
      [] body = "{\"model\": \"m2\"}" -> [ok |-> TRUE, model |-> "m2"]
      [] body = "{}" -> [ok |-> TRUE, model |-> ""]
      [] OTHER -> [ok |-> FALSE, model |-> ""]

\* dict(request.headers), of which the model keeps the Authorization header.
HeadersOf(req) == [repr |-> "dict", val |-> req.authorization]

\* The FastAPI route table: the three fixed routes accept GET only, and
\* every other method or path falls to the catch-all proxy route.
Route(req) ==
    IF req.method = "GET" /\ req.path \in {"/api_usage", "/service_log", "/models"}
    THEN req.path
    ELSE "proxy"

\* ------------------------------------------------------------------- steps

NoResponse == [status_code |-> 0, marker |-> "", content |-> ""]

\* Response(content, status_code, headers={"Proxy-Status": marker})
Response(content, status_code, marker) ==
    [status_code |-> status_code, marker |-> marker, content |-> content]

\* What the framework answers when a handler raises.
InternalServerError == Response("Internal Server Error", 500, "")

Do(op) ==
    [op |-> op, api_key |-> <<>>, endpoint |-> "", request_headers |-> none_headers,
     request_body |-> none, backend |-> "", response |-> NoResponse]

CallLogApiUsage(api_key, endpoint, request_headers, request_body) ==
    [Do("log_api_usage") EXCEPT !.api_key = api_key, !.endpoint = endpoint,
        !.request_headers = request_headers, !.request_body = request_body]

CallLogInvalidApiUsage(api_key, endpoint, request_headers, request_body) ==
    [Do("log_invalid_api_usage") EXCEPT !.api_key = api_key, !.endpoint = endpoint,
        !.request_headers = request_headers, !.request_body = request_body]

Forward(backend) == [Do("forward") EXCEPT !.backend = backend]

Return(resp) == [Do("return") EXCEPT !.response = resp]

\* ---------------------------------------------------------------- handlers
\* Each handler is the sequence of steps its code runs for a request.

\* A bug get_api_usage could have: its own usage logged before the read as
\* well as after it.
get_api_usage_LogsTwice(req) ==
    LET authorization == req.authorization
        api_key == Slice7(authorization)
    IN  IF ~StartsWith(authorization, Bearer)
        THEN << CallLogInvalidApiUsage(no_api_key, "/validate", none_headers, none),
                Return(Response("Invalid API Key format", 400, "invalid_api_key_format")) >>
        ELSE IF api_key \in KeyValues
        THEN << CallLogApiUsage(api_key, "/api_usage", none_headers, none),
                Do("read_api_usage"),
                CallLogApiUsage(api_key, "/api_usage", none_headers, none),
                Return(Response("data", 200, "")) >>
        ELSE << CallLogInvalidApiUsage(api_key, "/api_usage", none_headers, none),
                Return(Response("Invalid API Key", 401, "invalid_api_key")) >>

get_api_usage(req) ==
    LET authorization == req.authorization
        api_key == Slice7(authorization)
    IN  IF ~StartsWith(authorization, Bearer)
        THEN << CallLogInvalidApiUsage(no_api_key, "/validate", none_headers, none),
                Return(Response("Invalid API Key format", 400, "invalid_api_key_format")) >>
        ELSE IF api_key \in KeyValues
        THEN << Do("read_api_usage"),
                CallLogApiUsage(api_key, "/api_usage", none_headers, none),
                Return(Response("data", 200, "")) >>
        ELSE << CallLogInvalidApiUsage(api_key, "/api_usage", none_headers, none),
                Return(Response("Invalid API Key", 401, "invalid_api_key")) >>

get_service_log(req) ==
    LET authorization == req.authorization
        api_key == Slice7(authorization)
    IN  IF authorization = <<>>
        THEN << CallLogInvalidApiUsage(no_api_key, "/service_log", none_headers, none),
                Return(Response("Invalid API Key format", 400, "invalid_api_key_format")) >>
        ELSE IF api_key \in KeyValues
        THEN << CallLogApiUsage(api_key, "/service_log", none_headers, none),
                Do("read_service_log"),
                Return(Response("service.log", 200, "")) >>
        ELSE << CallLogInvalidApiUsage(api_key, "/service_log", none_headers, none),
                Return(Response("Invalid API Key", 401, "invalid_api")) >>

\* A bug get_models could have: the missing header answered without the
\* call of log_invalid_api_usage.
get_models_NoLog(req) ==
    LET authorization == req.authorization
        api_key == Slice7(authorization)
    IN  IF authorization = <<>>
        THEN << Return(Response("Invalid API Key format", 400, "invalid_api_key_format")) >>
        ELSE IF RemoveQuotes(api_key) \in KeyValues
        THEN << CallLogApiUsage(api_key, "/models", none_headers, none),
                Return(Response("models", 200, "")) >>
        ELSE << CallLogInvalidApiUsage(api_key, "/models", none_headers, none),
                Return(Response("Invalid API Key", 401, "invalid_api")) >>

get_models(req) ==
    LET authorization == req.authorization
        api_key == Slice7(authorization)
    IN  IF authorization = <<>>
        THEN << CallLogInvalidApiUsage(no_api_key, "/models", none_headers, none),
                Return(Response("Invalid API Key format", 400, "invalid_api_key_format")) >>
        ELSE IF RemoveQuotes(api_key) \in KeyValues
        THEN << CallLogApiUsage(api_key, "/models", none_headers, none),
                Return(Response("models", 200, "")) >>
        ELSE << CallLogInvalidApiUsage(api_key, "/models", none_headers, none),
                Return(Response("Invalid API Key", 401, "invalid_api")) >>

\* A bug SelectBackend could have: "in OPENAI_MODELS or OLLAMA_MODELS", which
\* Python reads as true whenever OLLAMA_MODELS is not empty.
SelectBackend_OrTruthy(model_name) ==
    IF model_name \in OPENAI_MODELS \/ OLLAMA_MODELS # {} THEN "openai"
    ELSE IF model_name \in OLLAMA_MODELS THEN "ollama"
    ELSE "none"

\* A bug SelectBackend could have: an unknown model sent to a default backend.
SelectBackend_Default(model_name) ==
    IF model_name \in OPENAI_MODELS THEN "openai"
    ELSE IF model_name \in OLLAMA_MODELS THEN "ollama"
    ELSE "openai"

\* A bug proxy could have: the key checked before the body, so that an empty
\* body with an unknown key is answered as a credential rejection.
proxy_KeyFirst(req) ==
    LET authorization == req.authorization
        request_headers == HeadersOf(req)
        request_body == req.body
        api_key == Slice7(authorization)
        parsed == JsonModel(request_body)
        model_name == parsed.model
    IN  IF ~StartsWith(authorization, Bearer)
        THEN << CallLogInvalidApiUsage(no_api_key, req.path, request_headers,
                                       [repr |-> "bytes", val |-> request_body]),
                Return(Response("Invalid API Key format", 400, "invalid_api_key_format")) >>
        ELSE IF RemoveQuotes(api_key) \notin KeyValues
        THEN << CallLogInvalidApiUsage(api_key, req.path, none_headers, none),
                Return(Response("Invalid API Key", 401, "invalid_api_key")) >>
        ELSE IF request_body = ""
        THEN << Return(Response("Access to this endpoint is restricted", 400,
                                "empty_request_body")) >>
        ELSE IF ~parsed.ok
        THEN << Return(InternalServerError) >>
        ELSE IF model_name \in OPENAI_MODELS
        THEN << CallLogApiUsage(api_key, req.path, request_headers,
                                [repr |-> "str", val |-> request_body]),
                Forward("openai") >>
        ELSE IF model_name \in OLLAMA_MODELS
        THEN << CallLogApiUsage(api_key, req.path, request_headers,
                                [repr |-> "str", val |-> request_body]),
                Forward("ollama") >>
        ELSE << CallLogInvalidApiUsage(api_key, req.path, none_headers, none),
                Return(Response("Invalid Model Name. Check if the model exists with /models endpoints",
                                400, "invalid_model")) >>

\* The branch proxy takes for a model name: the OpenAI branch when the name is
\* in OPENAI_MODELS, else the local-server branch when it is in
\* OLLAMA_MODELS, else neither.
SelectBackend(model_name) ==
    IF model_name \in OPENAI_MODELS THEN "openai"
    ELSE IF model_name \in OLLAMA_MODELS THEN "ollama"
    ELSE "none"

\* A bug proxy could have: the model looked up before the key, so that a
\* known model is forwarded whatever the key.
proxy_ModelFirst(req) ==
    LET authorization == req.authorization
        request_headers == HeadersOf(req)
        request_body == req.body
        api_key == Slice7(authorization)
        parsed == JsonModel(request_body)
        model_name == parsed.model
    IN  IF ~StartsWith(authorization, Bearer)
        THEN << CallLogInvalidApiUsage(no_api_key, req.path, request_headers,
                                       [repr |-> "bytes", val |-> request_body]),
                Return(Response("Invalid API Key format", 400, "invalid_api_key_format")) >>
        ELSE IF request_body = ""
        THEN << Return(Response("Access to this endpoint is restricted", 400,
                                "empty_request_body")) >>
        ELSE IF ~parsed.ok
        THEN << Return(InternalServerError) >>
        ELSE IF SelectBackend(model_name) # "none"
        THEN << CallLogApiUsage(api_key, req.path, request_headers,
                                [repr |-> "str", val |-> request_body]),
                Forward(SelectBackend(model_name)) >>
        ELSE IF RemoveQuotes(api_key) \in KeyValues
        THEN << CallLogInvalidApiUsage(api_key, req.path, none_headers, none),
                Return(Response("Invalid Model Name. Check if the model exists with /models endpoints",
                                400, "invalid_model")) >>
        ELSE << CallLogInvalidApiUsage(api_key, req.path, none_headers, none),
                Return(Response("Invalid API Key", 401, "invalid_api_key")) >>

proxy(req) ==
    LET authorization == req.authorization
        request_headers == HeadersOf(req)
        request_body == req.body
        api_key == Slice7(authorization)
        parsed == JsonModel(request_body)
        model_name == parsed.model
    IN  IF ~StartsWith(authorization, Bearer)
        THEN << CallLogInvalidApiUsage(no_api_key, req.path, request_headers,
                                       [repr |-> "bytes", val |-> request_body]),
                Return(Response("Invalid API Key format", 400, "invalid_api_key_format")) >>
        ELSE IF request_body = ""
        THEN << Return(Response("Access to this endpoint is restricted", 400,
                                "empty_request_body")) >>
        ELSE IF ~parsed.ok
        THEN << Return(InternalServerError) >>
        ELSE IF RemoveQuotes(api_key) \in KeyValues
        THEN IF SelectBackend(model_name) # "none"
             THEN << CallLogApiUsage(api_key, req.path, request_headers,
                                     [repr |-> "str", val |-> request_body]),
                     Forward(SelectBackend(model_name)) >>
             ELSE << CallLogInvalidApiUsage(api_key, req.path, none_headers, none),
                     Return(Response("Invalid Model Name. Check if the model exists with /models endpoints",
                                     400, "invalid_model")) >>
        ELSE << CallLogInvalidApiUsage(api_key, req.path, none_headers, none),
                Return(Response("Invalid API Key", 401, "invalid_api_key")) >>

\* The handler the route table dispatches the request to.
Handler(req) ==
    CASE Route(req) = "/api_usage" -> get_api_usage(req)
      [] Route(req) = "/service_log" -> get_service_log(req)
      [] Route(req) = "/models" -> get_models(req)
      [] OTHER -> proxy(req)

\* The outbound request proxy builds for a backend: client.post with the
\* gateway's own key for OpenAI, client.request with the inbound method and
\* headers for the local server; the body is the raw inbound body.
Outbound(backend, req) ==
    IF backend = "openai"
    THEN [backend |-> backend, method |-> "POST", path |-> req.path,
          authorization |-> Bearer \o OPENAI_API_KEY, body |-> req.body]
    ELSE [backend |-> backend, method |-> req.method, path |-> req.path,
          authorization |-> req.authorization, body |-> req.body]

\* The response proxy composes from the upstream answer: content only for
\* OpenAI (the status is Response's default, 200), content, status and
\* headers for the local server.
Relay(backend, answer) ==
    IF backend = "openai"
    THEN Response(answer.content, 200, "")
    ELSE Response(answer.content, answer.status_code, "")

\* ------------------------------------------------------------ the log files

\* The list log_api_usage hands to csv_writer.writerow.
UsageRecord(step) ==
    << now, UsernameOf(step.api_key), step.api_key, step.endpoint,
       step.request_headers, step.request_body >>

\* The list log_invalid_api_usage hands to csv_writer.writerow.
InvalidRecord(step) ==
    << now, step.api_key, step.endpoint, step.request_headers, step.request_body >>

\* A bug UsageRow could have: None written as the text "None".
UsageRow_NoneAsText(rec) ==
    << rec[1], rec[2], rec[3], rec[4], rec[5], rec[6] >>

\* csv_writer.writerow for a usage record: every field as text, None as the
\* empty string.
UsageRow(rec) ==
    << rec[1], IF rec[2] = None THEN "" ELSE rec[2], rec[3], rec[4], rec[5], rec[6] >>

\* The rows of the file after next(reader, None) has skipped the first.
SkipHeader(rows) == IF rows = <<>> THEN <<>> ELSE Tail(rows)

\* The entries get_api_usage builds from the rows of api_usage.csv.
ReadEntries(rows) ==
    [i \in 1 .. Len(SkipHeader(rows)) |->
        LET row == SkipHeader(rows)[i]
        IN  [timestamp |-> row[1], username |-> row[2], endpoint |-> row[4],
             request_header |-> row[5], request_body |-> row[6]]]

\* ------------------------------------------------------------------ actions

\* api_usage.csv is opened for appending and outlives the process: at start
\* it is absent or empty, or holds rows of an earlier run.
EarlierRow == << 0, "alice", <<"k", "1">>, "/models", none_headers, none >>

NoRequest == [method |-> "", path |-> "", authorization |-> <<>>, body |-> ""]

NoAnswer == [kind |-> "", status_code |-> 0, content |-> ""]

Init ==
    /\ boot = "serving"
    /\ OPENAI_MODELS \in SUBSET ModelNames
    /\ OLLAMA_MODELS \in SUBSET ModelNames
    /\ log_lock = 0
    /\ api_usage_csv \in {<<>>, <<EarlierRow>>}
    /\ invalid_api_usage_csv = <<>>
    /\ now = 1
    /\ pc = [r \in Reqs |-> "idle"]
    /\ request = [r \in Reqs |-> NoRequest]
    /\ todo = [r \in Reqs |-> <<>>]
    /\ entries = [r \in Reqs |-> <<>>]
    /\ attempts = [r \in Reqs |-> <<>>]
    /\ upstream = [r \in Reqs |-> NoAnswer]
    /\ response = [r \in Reqs |-> NoResponse]
    /\ calls = [r \in Reqs |-> <<>>]
    /\ audit = <<>>

catalog == <<boot, OPENAI_MODELS, OLLAMA_MODELS>>
files == <<api_usage_csv, invalid_api_usage_csv, now, audit>>

\* The router dispatches an inbound request to its handler.  Requests are
\* numbered in the order they arrive.
Receive(r, req) ==
    /\ boot = "serving"
    /\ pc[r] = "idle"
    /\ \A q \in Reqs : q < r => pc[q] # "idle"
    /\ request' = [request EXCEPT ![r] = req]
    /\ todo' = [todo EXCEPT ![r] = Handler(req)]
    /\ pc' = [pc EXCEPT ![r] = "run"]
    /\ UNCHANGED <<catalog, files, log_lock, entries, attempts, upstream,
                   response, calls>>

\* with log_lock: entered by a handler whose next step reads or appends a
\* usage file.
Acquire(r) ==
    /\ pc[r] = "run"
    /\ Head(todo[r]).op \in {"log_api_usage", "log_invalid_api_usage", "read_api_usage"}
    /\ log_lock = 0
    /\ log_lock' = r
    /\ pc' = [pc EXCEPT ![r] = "locked"]
    /\ UNCHANGED <<catalog, files, request, todo, entries, attempts, upstream,
                   response, calls>>

\* A bug log_api_usage could have: log_lock.acquire() with no release, so
\* that the caller goes on holding the lock.
WriteApiUsage_KeepsLock(r, ok) ==
    /\ pc[r] = "locked"
    /\ Head(todo[r]).op = "log_api_usage"
    /\ IF ok
       THEN /\ api_usage_csv' = Append(api_usage_csv, UsageRow(UsageRecord(Head(todo[r]))))
            /\ audit' = Append(audit, [req |-> r, log |-> "api_usage",
                                       row |-> UsageRecord(Head(todo[r]))])
            /\ now' = now + 1
       ELSE UNCHANGED <<api_usage_csv, audit, now>>
    /\ calls' = [calls EXCEPT ![r] = Append(@, "log_api_usage")]
    /\ todo' = [todo EXCEPT ![r] = Tail(@)]
    /\ pc' = [pc EXCEPT ![r] = "run"]
    /\ UNCHANGED <<catalog, log_lock, invalid_api_usage_csv, request, entries,
                   attempts, upstream, response>>

\* The body of log_api_usage under the lock: append one row, or log the
\* error when the file cannot be written; the lock is released either way.
WriteApiUsage(r, ok) ==
    /\ pc[r] = "locked"
    /\ Head(todo[r]).op = "log_api_usage"
    /\ IF ok
       THEN /\ api_usage_csv' = Append(api_usage_csv, UsageRow(UsageRecord(Head(todo[r]))))
            /\ audit' = Append(audit, [req |-> r, log |-> "api_usage",
                                       row |-> UsageRecord(Head(todo[r]))])
            /\ now' = now + 1
       ELSE UNCHANGED <<api_usage_csv, audit, now>>
    /\ log_lock' = 0
    /\ calls' = [calls EXCEPT ![r] = Append(@, "log_api_usage")]
    /\ todo' = [todo EXCEPT ![r] = Tail(@)]
    /\ pc' = [pc EXCEPT ![r] = "run"]
    /\ UNCHANGED <<catalog, invalid_api_usage_csv, request, entries, attempts,
                   upstream, response>>

\* The body of log_invalid_api_usage under the lock.
WriteInvalidApiUsage(r, ok) ==
    /\ pc[r] = "locked"
    /\ Head(todo[r]).op = "log_invalid_api_usage"
    /\ IF ok
       THEN /\ invalid_api_usage_csv' =
                   Append(invalid_api_usage_csv, InvalidRecord(Head(todo[r])))
            /\ audit' = Append(audit, [req |-> r, log |-> "invalid_api_usage",
                                       row |-> InvalidRecord(Head(todo[r]))])
            /\ now' = now + 1
       ELSE UNCHANGED <<invalid_api_usage_csv, audit, now>>
    /\ log_lock' = 0
    /\ calls' = [calls EXCEPT ![r] = Append(@, "log_invalid_api_usage")]
    /\ todo' = [todo EXCEPT ![r] = Tail(@)]
    /\ pc' = [pc EXCEPT ![r] = "run"]
    /\ UNCHANGED <<catalog, api_usage_csv, request, entries, attempts, upstream,
                   response>>

\* A bug get_api_usage could have: log_api_usage called inside the
\* "with log_lock" block of the read, that is, with the lock still held.
ReadApiUsage_KeepsLock(r, ok) ==
    /\ pc[r] = "locked"
    /\ Head(todo[r]).op = "read_api_usage"
    /\ IF ok
       THEN /\ entries' = [entries EXCEPT ![r] = ReadEntries(api_usage_csv)]
            /\ audit' = Append(audit, [req |-> r, log |-> "read", row |-> <<>>])
            /\ todo' = [todo EXCEPT ![r] = Tail(@)]
            /\ UNCHANGED log_lock
       ELSE /\ todo' = [todo EXCEPT ![r] =
                   << Return(Response("Failed to read usage data", 500, "")) >>]
            /\ log_lock' = 0
            /\ UNCHANGED <<entries, audit>>
    /\ pc' = [pc EXCEPT ![r] = "run"]
    /\ UNCHANGED <<catalog, api_usage_csv, invalid_api_usage_csv, now, request,
                   attempts, upstream, response, calls>>

\* get_api_usage reads api_usage.csv under the lock; a failed read raises
\* HTTPException(500) and the handler's own usage is then not logged.
ReadApiUsage(r, ok) ==
    /\ pc[r] = "locked"
    /\ Head(todo[r]).op = "read_api_usage"
    /\ log_lock' = 0
    /\ IF ok
       THEN /\ entries' = [entries EXCEPT ![r] = ReadEntries(api_usage_csv)]
            /\ audit' = Append(audit, [req |-> r, log |-> "read", row |-> <<>>])
            /\ todo' = [todo EXCEPT ![r] = Tail(@)]
       ELSE /\ todo' = [todo EXCEPT ![r] =
                   << Return(Response("Failed to read usage data", 500, "")) >>]
            /\ UNCHANGED <<entries, audit>>
    /\ pc' = [pc EXCEPT ![r] = "run"]
    /\ UNCHANGED <<catalog, api_usage_csv, invalid_api_usage_csv, now, request,
                   attempts, upstream, response, calls>>

\* get_service_log reads service.log, without the lock.
ReadServiceLog(r, ok) ==
    /\ pc[r] = "run"
    /\ Head(todo[r]).op = "read_service_log"
    /\ todo' = [todo EXCEPT ![r] =
           IF ok THEN Tail(@)
           ELSE << Return(Response("Failed to read service log", 500, "")) >>]
    /\ UNCHANGED <<catalog, files, log_lock, pc, request, entries, attempts,
                   upstream, response, calls>>

\* proxy sends the outbound request and awaits the answer.
Send(r) ==
    /\ pc[r] = "run"
    /\ Head(todo[r]).op = "forward"
    /\ attempts' = [attempts EXCEPT ![r] =
           Append(@, Outbound(Head(todo[r]).backend, request[r]))]
    /\ pc' = [pc EXCEPT ![r] = "await"]
    /\ UNCHANGED <<catalog, files, log_lock, request, todo, entries, upstream,
                   response, calls>>

\* The awaited call ends: with an answer, which proxy relays, or with a
\* network error or timeout, which proxy does not catch.
Reply(r, answer) ==
    /\ pc[r] = "await"
    /\ upstream' = [upstream EXCEPT ![r] = answer]
    /\ todo' = [todo EXCEPT ![r] =
           IF answer.kind = "error"
           THEN << Return(InternalServerError) >>
           ELSE << Return(Relay(Head(todo[r]).backend, answer)) >>]
    /\ pc' = [pc EXCEPT ![r] = "run"]
    /\ UNCHANGED <<catalog, files, log_lock, request, entries, attempts,
                   response, calls>>

\* The handler returns its response to the caller.
Respond(r) ==
    /\ pc[r] = "run"
    /\ Head(todo[r]).op = "return"
    /\ response' = [response EXCEPT ![r] = Head(todo[r]).response]
    /\ todo' = [todo EXCEPT ![r] = <<>>]
    /\ pc' = [pc EXCEPT ![r] = "done"]
    /\ UNCHANGED <<catalog, files, log_lock, request, entries, attempts,
                   upstream, calls>>

\* One step of the handler of request r.
Handle(r) ==
    \/ Acquire(r)
    \/ \E ok \in BOOLEAN : WriteApiUsage(r, ok)
    \/ \E ok \in BOOLEAN : WriteInvalidApiUsage(r, ok)
    \/ \E ok \in BOOLEAN : ReadApiUsage(r, ok)
    \/ \E ok \in BOOLEAN : ReadServiceLog(r, ok)
    \/ Send(r)
    \/ \E answer \in Outcomes : Reply(r, answer)
    \/ Respond(r)

\* One request at a time, drawn from every input.
Next == (\E req \in Inputs : Receive(1, req)) \/ Handle(1)

Spec == Init /\ [][Next]_vars

\* Requests handled concurrently: any request may take its next step.
NextConcurrent ==
    \E r \in Reqs : (\E req \in ConcurrentInputs : Receive(r, req)) \/ Handle(r)

\* In the concurrent specification the one model its proxied request names
\* is served by the OpenAI backend or by none.
InitConcurrent ==
    /\ Init
    /\ OPENAI_MODELS \subseteq {"m1"}
    /\ OLLAMA_MODELS = {}

SpecConcurrent == InitConcurrent /\ [][NextConcurrent]_vars

\* Scheduling: a handler that can take its next step eventually takes it.
\* A blocked lock.acquire() returns once the lock is free, file operations
\* return, and an awaited client call ends with an answer, an error or its
\* timeout.
NextFair ==
    \E r \in Reqs : (\E req \in FairInputs : Receive(r, req)) \/ Handle(r)

\* The fair specification starts from a fresh api_usage.csv.
InitFair == InitConcurrent /\ api_usage_csv = <<>>

SpecFair == InitFair /\ [][NextFair]_vars /\ \A r \in Reqs : WF_vars(Handle(r))

\* ---------------------------------------------------------------- start-up

\* get_openai_models / get_ollama_models: no fetch and an empty list when the
\* backend is not configured; otherwise json.loads(response.content) and
\* .get("data", []) / .get("models", []).  Nothing catches a network error or
\* a body json.loads rejects.
GetModels(provided, answer) ==
    IF ~provided THEN [raised |-> FALSE, models |-> {}]
    ELSE IF answer.kind \in {"error", "not_json"} THEN [raised |-> TRUE, models |-> {}]
    ELSE [raised |-> FALSE, models |-> answer.models]

\* The process before the module-level model lists are built.
InitStartup ==
    /\ boot = "openai"
    /\ OPENAI_MODELS = {}
    /\ OLLAMA_MODELS = {}
    /\ log_lock = 0
    /\ api_usage_csv \in {<<>>, <<EarlierRow>>}
    /\ invalid_api_usage_csv = <<>>
    /\ now = 1
    /\ pc = [r \in Reqs |-> "idle"]
    /\ request = [r \in Reqs |-> NoRequest]
    /\ todo = [r \in Reqs |-> <<>>]
    /\ entries = [r \in Reqs |-> <<>>]
    /\ attempts = [r \in Reqs |-> <<>>]
    /\ upstream = [r \in Reqs |-> NoAnswer]
    /\ response = [r \in Reqs |-> NoResponse]
    /\ calls = [r \in Reqs |-> <<>>]
    /\ audit = <<>>

\* OPENAI_MODELS = [model['id'] for model in get_openai_models() ...]: an
\* exception raised by the fetch ends the import, and the process with it.
LoadOpenAIModels(provided, answer) ==
    /\ boot = "openai"
    /\ IF GetModels(provided, answer).raised
       THEN boot' = "failed" /\ UNCHANGED OPENAI_MODELS
       ELSE boot' = "ollama" /\ OPENAI_MODELS' = GetModels(provided, answer).models
    /\ UNCHANGED <<OLLAMA_MODELS, files, log_lock, pc, request, todo, entries,
                   attempts, upstream, response, calls>>

\* OLLAMA_MODELS = [model['name'] for model in get_ollama_models() ...]
LoadOllamaModels(provided, answer) ==
    /\ boot = "ollama"
    /\ IF GetModels(provided, answer).raised
       THEN boot' = "failed" /\ UNCHANGED OLLAMA_MODELS
       ELSE boot' = "serving" /\ OLLAMA_MODELS' = GetModels(provided, answer).models
    /\ UNCHANGED <<OPENAI_MODELS, files, log_lock, pc, request, todo, entries,
                   attempts, upstream, response, calls>>

\* The process from its start: the two fetches, then one request.
NextStartup ==
    \/ \E provided \in BOOLEAN : \E answer \in FetchAnswers :
            LoadOpenAIModels(provided, answer)
    \/ \E provided \in BOOLEAN : \E answer \in FetchAnswers :
            LoadOllamaModels(provided, answer)
    \/ Next

SpecStartup == InitStartup /\ [][NextStartup]_vars

\* ------------------------------------------------------------------ claims

Done(r) == pc[r] = "done"

IsProxy(r) == pc[r] # "idle" /\ Route(request[r]) = "proxy"

\* The token of a request's header, and the model its body names.
Token(r) == Slice7(request[r].authorization)
ModelOf(r) == JsonModel(request[r].body).model

\* A token with one pair of surrounding quote characters removed.
Unquote(s) ==
    IF Len(s) >= 2 /\ s[1] = Quote /\ s[Len(s)] = Quote
    THEN SubSeq(s, 2, Len(s) - 1)
    ELSE s

\* The handler of r got as far as checking the key: every fixed route does,
\* proxy does once the body is there and parses.
KeyChecked(r) ==
    /\ pc[r] # "idle"
    /\ IsProxy(r) => request[r].body # "" /\ JsonModel(request[r].body).ok

\* The response rejects the credential.
CredentialRejected(r) ==
    response[r].marker \in {"invalid_api_key_format", "invalid_api_key", "invalid_api"}

\* A proxy request with a bearer key the proxy accepts and a body that parses.
AuthenticatedProxy(r) ==
    /\ IsProxy(r)
    /\ StartsWith(request[r].authorization, Bearer)
    /\ RemoveQuotes(Token(r)) \in KeyValues
    /\ request[r].body # ""
    /\ JsonModel(request[r].body).ok

Backends == {"openai", "ollama"}

CatalogOf(backend) == IF backend = "openai" THEN OPENAI_MODELS ELSE OLLAMA_MODELS

Attempted(r) == {attempts[r][i].backend : i \in DOMAIN attempts[r]}

Failed(answer) ==
    answer.kind = "error" \/ answer.status_code \notin 200 .. 299

\* C1: every request to a bearer-protected endpoint has passed through a log
\* function (log_api_usage or log_invalid_api_usage) by the time its response
\* is sent, on every branch of its handler.
C1_EveryBranchLogs ==
    \A r \in Reqs : Done(r) => calls[r] # <<>>

\* C2: a request with a header "Bearer <token>" is treated as authenticated
\* if and only if the token, its surrounding quotes removed, is a key of
\* VALID_API_KEYS, on every endpoint alike.
C2_SameVerdictEverywhere ==
    \A r \in Reqs :
        Done(r) /\ KeyChecked(r) /\ StartsWith(request[r].authorization, Bearer)
            => (~CredentialRejected(r) <=> Unquote(Token(r)) \in KeyValues)

\* C3: a header that does not start with "Bearer " is rejected with status
\* 400 as a malformed credential, on every endpoint.
C3_NonBearerRejected ==
    \A r \in Reqs :
        Done(r) /\ ~StartsWith(request[r].authorization, Bearer)
            => /\ response[r].status_code = 400
               /\ response[r].marker = "invalid_api_key_format"

\* C4: a request to /validate gets 400 for a malformed header, 200 for a
\* valid key and 401 for a key that is not recognized, whatever its body.
C4_ValidateStatus ==
    \A r \in Reqs :
        Done(r) /\ request[r].path = "/validate"
            => response[r].status_code =
                  IF ~StartsWith(request[r].authorization, Bearer) THEN 400
                  ELSE IF RemoveQuotes(Token(r)) \in KeyValues THEN 200
                  ELSE 401

\* C5: outbound attempts for a request go only to a backend whose catalog
\* lists the request's model, at most one attempt is made, and an
\* authenticated proxy request whose model is in some catalog (one or both)
\* has made exactly one attempt when it ends.
C5_OnlyOwningBackend ==
    \A r \in Reqs :
        /\ Len(attempts[r]) <= 1
        /\ \A b \in Attempted(r) : ModelOf(r) \in CatalogOf(b)
        /\ Done(r) /\ AuthenticatedProxy(r)
              /\ ModelOf(r) \in OPENAI_MODELS \cup OLLAMA_MODELS
              => Len(attempts[r]) = 1

\* A finished request whose model both catalogs list, with its one attempt.
C5_Witness ==
    \E r \in Reqs :
        /\ Done(r) /\ AuthenticatedProxy(r)
        /\ ModelOf(r) \in OPENAI_MODELS \cap OLLAMA_MODELS
        /\ Len(attempts[r]) = 1

C7_FailureReportedWithMarker ==
    \A r \in Reqs :
        Done(r) /\ attempts[r] # <<>> /\ Failed(upstream[r])
            => /\ response[r].status_code \in 500 .. 599
               /\ response[r].marker # ""

\* C8: when the backend answers with a 2xx status, the caller gets that
\* status and that body, and the outbound request carried the inbound method
\* and body.
C8_RelayedVerbatim ==
    \A r \in Reqs :
        Done(r) /\ attempts[r] # <<>> /\ ~Failed(upstream[r])
            => /\ response[r].status_code = upstream[r].status_code
               /\ response[r].content = upstream[r].content
               /\ \A i \in DOMAIN attempts[r] :
                     /\ attempts[r][i].method = request[r].method
                     /\ attempts[r][i].body = request[r].body

\* The read of api_usage.csv by request r, if it has happened, and the usage
\* records appended under the lock before it, in lock order.
HasRead(r) == \E i \in DOMAIN audit : audit[i].req = r /\ audit[i].log = "read"

ReadAt(r) == CHOOSE i \in DOMAIN audit : audit[i].req = r /\ audit[i].log = "read"

WrittenBefore(r) ==
    SelectSeq(SubSeq(audit, 1, ReadAt(r) - 1), LAMBDA e : e.log = "api_usage")

\* C9: a read through /api_usage returns exactly the records that
\* log_api_usage appended before it, in the order in which they were appended
\* under log_lock.
C9_ReadReturnsEveryRecordInOrder ==
    \A r \in Reqs :
        HasRead(r)
            => /\ Len(entries[r]) = Len(WrittenBefore(r))
               /\ \A i \in DOMAIN entries[r] :
                     entries[r][i].timestamp = WrittenBefore(r)[i].row[1]

GatewayOrigin(r) == attempts[r] = <<>> \/ upstream[r].kind = "error"

\* C11: every 400, 401 or 500 response the gateway produces itself carries
\* the Proxy-Status marker.
C11_FailuresCarryMarker ==
    \A r \in Reqs :
        Done(r) /\ GatewayOrigin(r) /\ response[r].status_code \in {400, 401, 500}
            => response[r].marker # ""

\* C12: a failed model-list fetch is recovered as an empty list: it never
\* stops the gateway from starting.
C12_FetchFailureRecovered == boot # "failed"

\* C13: a handler waiting for the answer to an outbound call does not hold
\* log_lock; the lock is held only by a handler that is reading or appending
\* a usage file.
C13_NoLockAcrossNetworkCall ==
    \A r \in Reqs :
        /\ pc[r] = "await" => log_lock # r
        /\ log_lock = r => pc[r] = "locked"

\* One request waits for its backend while another holds the lock.
C13_Witness ==
    \E r, q \in Reqs : pc[r] = "await" /\ pc[q] = "locked" /\ log_lock = q

\* A proxy request with a well-formed bearer header and an empty body.
EmptyBodyProxy(r) ==
    /\ IsProxy(r)
    /\ StartsWith(request[r].authorization, Bearer)
    /\ request[r].body = ""

\* C14: a proxy request with an empty body and a well-formed bearer header is
\* answered 400 with the marker empty_request_body, whether its key is valid
\* or not, with no backend attempted; the marker is none of the
\* credential-rejection markers.
C14_EmptyBodyRejectedFirst ==
    \A r \in Reqs :
        EmptyBodyProxy(r)
            => /\ attempts[r] = <<>>
               /\ Done(r) => /\ response[r].status_code = 400
                             /\ response[r].marker = "empty_request_body"
                             /\ ~CredentialRejected(r)

\* A finished empty-body proxy request whose key is not a valid one.
C14_Witness ==
    \E r \in Reqs :
        Done(r) /\ EmptyBodyProxy(r) /\ RemoveQuotes(Token(r)) \notin KeyValues

\* The records request r has appended to the log named log.
RecordsOf(r, log) == {i \in DOMAIN audit : audit[i].req = r /\ audit[i].log = log}

\* A request to /models with no Authorization header.
ModelsNoHeader(r) ==
    /\ request[r].method = "GET"
    /\ request[r].path = "/models"
    /\ request[r].authorization = <<>>

\* C15 as stated: a request to /models with no Authorization header gets 400
\* with the marker invalid_api_key_format, and exactly one record is appended
\* to the invalid-usage log and none to the accepted-usage log.
C15_ExactlyOneInvalidRecord ==
    \A r \in Reqs :
        Done(r) /\ ModelsNoHeader(r)
            => /\ response[r].status_code = 400
               /\ response[r].marker = "invalid_api_key_format"
               /\ Cardinality(RecordsOf(r, "invalid_api_usage")) = 1
               /\ RecordsOf(r, "api_usage") = {}

\* C15 amended: a request to /models with no Authorization header gets 400
\* with the marker invalid_api_key_format after exactly one call of
\* log_invalid_api_usage, which appends one record to the invalid-usage log
\* or none when the file cannot be written; no record is appended to the
\* accepted-usage log.
C15_OneInvalidLogCall ==
    \A r \in Reqs :
        ModelsNoHeader(r)
            => /\ RecordsOf(r, "api_usage") = {}
               /\ Cardinality(RecordsOf(r, "invalid_api_usage")) <= 1
               /\ Done(r) => /\ response[r].status_code = 400
                             /\ response[r].marker = "invalid_api_key_format"
                             /\ calls[r] = << "log_invalid_api_usage" >>

\* A finished /models request with no header whose record was appended.
C15_Witness ==
    \E r \in Reqs :
        /\ Done(r) /\ ModelsNoHeader(r)
        /\ Cardinality(RecordsOf(r, "invalid_api_usage")) = 1
        /\ invalid_api_usage_csv # <<>>

\* The rows of a log file written in this run: the clock starts at 1, and
\* the rows of an earlier run carry an earlier timestamp.
Appended(rows) == {i \in DOMAIN rows : rows[i][1] >= 1}

\* The requests the gateway has taken in.
Handled == {r \in Reqs : pc[r] # "idle"}

IsPrefix(s, t) == Len(s) <= Len(t) /\ SubSeq(t, 1, Len(s)) = s

\* At most one record per request, in either file.
AtMostOneRecordEach ==
    /\ \A r \in Reqs :
           Cardinality(RecordsOf(r, "api_usage") \cup RecordsOf(r, "invalid_api_usage")) <= 1
    /\ Cardinality(Appended(api_usage_csv)) + Cardinality(Appended(invalid_api_usage_csv))
           = Cardinality({i \in DOMAIN audit : audit[i].log # "read"})
    /\ Cardinality(Appended(api_usage_csv)) + Cardinality(Appended(invalid_api_usage_csv))
           <= Cardinality(Handled)

\* Every step leaves the rows a log file already holds as they are.
AppendOnly ==
    /\ IsPrefix(api_usage_csv, api_usage_csv')
    /\ IsPrefix(invalid_api_usage_csv, invalid_api_usage_csv')

\* C16: no request creates more than one audit record, the records of the
\* two log files together never outnumber the requests handled, and no step
\* modifies or removes a record a file already holds.
C16_OneRecordPerRequest == [] AtMostOneRecordEach /\ [][AppendOnly]_vars

\* Both requests have finished and each has left its record, one after a row
\* that was in the file before.
C16_Witness ==
    /\ \A r \in Reqs :
           Done(r) /\ RecordsOf(r, "api_usage") \cup RecordsOf(r, "invalid_api_usage") # {}
    /\ Len(api_usage_csv) + Len(invalid_api_usage_csv) = NumReqs + 1

\* The credential of r authenticates: a bearer header whose key, quotes
\* aside, is a value of VALID_API_KEYS.
Authenticated(r) ==
    /\ StartsWith(request[r].authorization, Bearer)
    /\ RemoveQuotes(Token(r)) \in KeyValues

Logged(r, fn) == \E i \in DOMAIN calls[r] : calls[r][i] = fn

\* C17: a finished request has been through log_api_usage if and only if its
\* credential authenticated against VALID_API_KEYS, and through
\* log_invalid_api_usage if and only if it did not.
C17_LogReflectsAuthentication ==
    \A r \in Reqs :
        Done(r) => /\ Logged(r, "log_api_usage") <=> Authenticated(r)
                   /\ Logged(r, "log_invalid_api_usage") <=> ~Authenticated(r)

\* The endpoint field of an audit record: the fourth field of a usage
\* record, the third of an invalid-usage record.
EndpointOf(e) == IF e.log = "api_usage" THEN e.row[4] ELSE e.row[3]

\* C18: the endpoint field of every audit record equals the path of the
\* request that produced it.
C18_EndpointIsRequestPath ==
    \A i \in DOMAIN audit :
        audit[i].log # "read" => EndpointOf(audit[i]) = request[audit[i].req].path

\* C19 as stated: a request that has made a forward attempt has a credential
\* that authenticated and has its record in the accepted-usage log.
C19_ForwardAfterRecord ==
    \A r \in Reqs :
        attempts[r] # <<>> => Authenticated(r) /\ RecordsOf(r, "api_usage") # {}

\* C19 amended: a request that has made a forward attempt has a credential
\* that authenticated and has returned from log_api_usage, and from no other
\* log function; its record is in the accepted-usage log unless the file
\* could not be written.
C19_ForwardAfterKeyCheckAndLogCall ==
    \A r \in Reqs :
        attempts[r] # <<>>
            => /\ Authenticated(r)
               /\ calls[r] = << "log_api_usage" >>
               /\ Cardinality(RecordsOf(r, "api_usage")) <= 1
               /\ RecordsOf(r, "invalid_api_usage") = {}

\* A request is waiting for its backend with its usage record in the file.
C19_Witness ==
    \E r \in Reqs :
        /\ pc[r] = "await" /\ Len(attempts[r]) = 1
        /\ RecordsOf(r, "api_usage") # {}
        /\ api_usage_csv[Len(api_usage_csv)][4] = request[r].path

\* The next step of r is one that takes log_lock.
AtLockStep(r) ==
    /\ pc[r] = "run"
    /\ Head(todo[r]).op \in {"log_api_usage", "log_invalid_api_usage", "read_api_usage"}

\* Whoever holds log_lock is inside a "with log_lock" block: no handler goes
\* on to another step, or to another acquisition, with the lock held.
ReleasedOnEveryPath == \A r \in Reqs : log_lock = r => pc[r] = "locked"

\* No request is in its handler: each has yet to arrive or has responded.
Quiet == \A r \in Reqs : pc[r] \in {"idle", "done"}

\* C20: log_lock is never requested by its holder and is released on every
\* path, and under fair scheduling every request that reaches a step taking
\* the lock eventually responds.  A request that has responded stays so and
\* the requests are finitely many, so "each request taken in eventually
\* responds" is "eventually no request is left in its handler".
C20_NoDeadlock == [] ReleasedOnEveryPath /\ <>[] Quiet

\* One request waits for the lock another holds, after the holder's own
\* read of the usage log.
C20_Witness ==
    \E r, q \in Reqs :
        /\ AtLockStep(r)
        /\ log_lock = q /\ pc[q] = "locked"
        /\ HasRead(q) /\ Head(todo[q]).op = "log_api_usage"

====
